---- MODULE Spec2Model ----
(***************************************************************************)
(* Model of distribucion.c: an AVL tree of perishable lots keyed by expiry *)
(* date (fecha_vencimiento), each node owning a FIFO queue of dispatch     *)
(* orders kept as a singly linked list with head and tail pointers, and    *)
(* the binary save/load of the whole tree.                                 *)
(*                                                                         *)
(* Node pointers are modelled by value: a subtree is either NullNode or a  *)
(* record holding the fields of struct Node, its children nested.  Order   *)
(* pointers are modelled by address: an Order lives in a cell of `heap',   *)
(* address 0 is the C NULL pointer.                                        *)
(***************************************************************************)
EXTENDS Integers, Sequences, FiniteSets, TLC

(***************************************************************************)
(* Bounds of the model (not program constants).                            *)
(***************************************************************************)
MaxKey == 4
MaxTreeKey == 6
MaxStock == 2
MaxOrders == 2
MaxOps == 5
MaxDoc == 4

Keys == 1..MaxKey
TreeKeys == 1..MaxTreeKey
Products == {"arroz", "leche"}
Dests == {"Guapi", "Nuqui"}
\* Every lot is received with the same stock; dispatches make stocks differ.
Stocks == {MaxStock}
Qtys == 0..(MaxStock + 1)
CancelQtys == 1..MaxStock
\* Every live order may have one clone alive during a two-child deletion.
HeapSize == 2 * MaxOrders
Addrs == 1..HeapSize

\* raiz is the passenger tree of arbol.c, a program of its own.
VARIABLES root, heap, file, op, aborted, nops, raiz

vars == <<root, heap, file, op, aborted, nops, raiz>>

(***************************************************************************)
(* Values                                                                  *)
(***************************************************************************)
\* The NULL Node pointer.
NullNode == [null |-> TRUE]

\* The NULL Order pointer.
NullOrder == 0

\* A heap cell that holds no allocated Order (never allocated, or freed).
FreeCell == [live |-> FALSE, nombre_destino |-> "", cantidad_solicitada |-> 0,
             siguiente |-> NullOrder]

EmptyHeap == [a \in Addrs |-> FreeCell]

\* The -1 written in place of an absent child.
marcador == -1

\* strncpy(dst, src, MAX-1) followed by dst[MAX-1] = '\0': every name the
\* program handles was read by read_line into a buffer of the same size, so
\* it is shorter than the limit and is copied whole.
copy_name(s) == s

max(a, b) == IF a > b THEN a ELSE b

height(n) == IF n.null THEN 0 ELSE n.height

\* malloc of a Node succeeded (mem) or returned NULL.
newNode_no_stock(fecha, producto, stock, mem) ==
    IF ~mem THEN NullNode
    ELSE [null |-> FALSE,
          fecha_vencimiento |-> fecha,
          producto |-> copy_name(producto),
          stock_total |-> 0,
          cabeza_pedidos |-> NullOrder,
          tail |-> NullOrder,
          left |-> NullNode,
          right |-> NullNode,
          height |-> 1]

newNode(fecha, producto, stock, mem) ==
    IF ~mem THEN NullNode
    ELSE [null |-> FALSE,
          fecha_vencimiento |-> fecha,
          producto |-> copy_name(producto),
          stock_total |-> stock,
          cabeza_pedidos |-> NullOrder,
          tail |-> NullOrder,
          left |-> NullNode,
          right |-> NullNode,
          height |-> 1]

\* rightRotate computing the height of x from the height y had before.
rightRotate_stale(y) ==
    LET x == y.left
        T2 == x.right
        y2 == [y EXCEPT !.left = T2,
                        !.height = max(height(T2), height(y.right)) + 1]
    IN  [x EXCEPT !.right = y2,
                  !.height = max(height(x.left), height(y)) + 1]

rightRotate(y) ==
    LET x == y.left
        T2 == x.right
        y2 == [y EXCEPT !.left = T2,
                        !.height = max(height(T2), height(y.right)) + 1]
    IN  [x EXCEPT !.right = y2,
                  !.height = max(height(x.left), height(y2)) + 1]

\* leftRotate without the reassignment x->right = T2.
leftRotate_keepRight(x) ==
    LET y == x.right
        x2 == [x EXCEPT !.height = max(height(x.left), height(x.right)) + 1]
    IN  [y EXCEPT !.left = x2,
                  !.height = max(height(x2), height(y.right)) + 1]

leftRotate(x) ==
    LET y == x.right
        T2 == y.left
        x2 == [x EXCEPT !.right = T2,
                        !.height = max(height(x.left), height(T2)) + 1]
    IN  [y EXCEPT !.left = x2,
                  !.height = max(height(x2), height(y.right)) + 1]

getBalance(n) == IF n.null THEN 0 ELSE height(n.left) - height(n.right)

\* searchNode descending to the wrong side.
RECURSIVE searchNode_swapped(_, _)
searchNode_swapped(n, fecha) ==
    IF n.null THEN NullNode
    ELSE IF fecha = n.fecha_vencimiento THEN n
    ELSE IF fecha > n.fecha_vencimiento THEN searchNode_swapped(n.left, fecha)
    ELSE searchNode_swapped(n.right, fecha)

RECURSIVE searchNode(_, _)
searchNode(n, fecha) ==
    IF n.null THEN NullNode
    ELSE IF fecha = n.fecha_vencimiento THEN n
    ELSE IF fecha < n.fecha_vencimiento THEN searchNode(n.left, fecha)
    ELSE searchNode(n.right, fecha)

\* minValueNode descending to the right.
RECURSIVE minValueNode_right(_)
minValueNode_right(n) ==
    IF n.null THEN NullNode
    ELSE IF n.right.null THEN n
    ELSE minValueNode_right(n.right)

RECURSIVE minValueNode(_)
minValueNode(n) ==
    IF n.null THEN NullNode
    ELSE IF n.left.null THEN n
    ELSE minValueNode(n.left)

\* insertAVL rebalancing with single rotations only.
insert_rebalance_single(node0, fecha) ==
    LET node == [node0 EXCEPT
                   !.height = 1 + max(height(node0.left), height(node0.right))]
        balance == getBalance(node)
    IN  IF balance > 1 THEN rightRotate(node)
        ELSE IF balance < -1 THEN leftRotate(node)
        ELSE node

\* The four rebalancing cases of insertAVL, applied to a node whose child
\* link has just been reassigned.
insert_rebalance(node0, fecha) ==
    LET node == [node0 EXCEPT
                   !.height = 1 + max(height(node0.left), height(node0.right))]
        balance == getBalance(node)
    IN  IF balance > 1 /\ fecha < node.left.fecha_vencimiento
        THEN rightRotate(node)
        ELSE IF balance < -1 /\ fecha > node.right.fecha_vencimiento
        THEN leftRotate(node)
        ELSE IF balance > 1 /\ fecha > node.left.fecha_vencimiento
        THEN rightRotate([node EXCEPT !.left = leftRotate(node.left)])
        ELSE IF balance < -1 /\ fecha < node.right.fecha_vencimiento
        THEN leftRotate([node EXCEPT !.right = rightRotate(node.right)])
        ELSE node

\* insertAVL returns ret, the pointer it returns, and cur, the node the
\* caller passed as it is left in memory (it is modified in place).
RECURSIVE insertAVL(_, _, _, _, _)
insertAVL(node, fecha, producto, stock, mem) ==
    IF node.null
    THEN [ret |-> newNode(fecha, producto, stock, mem), cur |-> node]
    ELSE IF fecha < node.fecha_vencimiento
    THEN LET r == insertAVL(node.left, fecha, producto, stock, mem)
             n1 == [node EXCEPT !.left = r.ret]
         IN  IF r.ret.null THEN [ret |-> NullNode, cur |-> n1]
             ELSE [ret |-> insert_rebalance(n1, fecha), cur |-> n1]
    ELSE IF fecha > node.fecha_vencimiento
    THEN LET r == insertAVL(node.right, fecha, producto, stock, mem)
             n1 == [node EXCEPT !.right = r.ret]
         IN  IF r.ret.null THEN [ret |-> NullNode, cur |-> n1]
             ELSE [ret |-> insert_rebalance(n1, fecha), cur |-> n1]
    ELSE [ret |-> node, cur |-> node]

(***************************************************************************)
(* The order queue of a node: a linked list of heap cells.                 *)
(***************************************************************************)
FreeAddrs(hp) == {a \in Addrs : ~hp[a].live}

\* malloc(sizeof(Order)): the address of a free cell (the lowest one), or
\* NULL when the heap is exhausted.
malloc_order(hp) ==
    IF FreeAddrs(hp) = {} THEN NullOrder
    ELSE CHOOSE a \in FreeAddrs(hp) : \A b \in FreeAddrs(hp) : a <= b

\* enqueue_order linking the new order before the head.
enqueue_order_front(node, destino, cantidad, hp) ==
    IF node.null THEN [ok |-> FALSE, node |-> node, heap |-> hp]
    ELSE LET o == malloc_order(hp)
             cell == [live |-> TRUE,
                      nombre_destino |-> copy_name(destino),
                      cantidad_solicitada |-> cantidad,
                      siguiente |-> node.cabeza_pedidos]
         IN  IF o = NullOrder THEN [ok |-> FALSE, node |-> node, heap |-> hp]
             ELSE [ok |-> TRUE,
                   node |-> [node EXCEPT
                               !.cabeza_pedidos = o,
                               !.tail = IF node.tail = NullOrder THEN o
                                        ELSE node.tail],
                   heap |-> [hp EXCEPT ![o] = cell]]

\* enqueue_order returns ok, and the node and the heap as it leaves them.
enqueue_order(node, destino, cantidad, hp) ==
    IF node.null THEN [ok |-> FALSE, node |-> node, heap |-> hp]
    ELSE LET o == malloc_order(hp)
             cell == [live |-> TRUE,
                      nombre_destino |-> copy_name(destino),
                      cantidad_solicitada |-> cantidad,
                      siguiente |-> NullOrder]
         IN  IF o = NullOrder THEN [ok |-> FALSE, node |-> node, heap |-> hp]
             ELSE IF node.cabeza_pedidos = NullOrder
             THEN [ok |-> TRUE,
                   node |-> [node EXCEPT !.cabeza_pedidos = o, !.tail = o],
                   heap |-> [hp EXCEPT ![o] = cell]]
             ELSE [ok |-> TRUE,
                   node |-> [node EXCEPT !.tail = o],
                   heap |-> [hp EXCEPT ![o] = cell,
                                       ![node.tail].siguiente = o]]

RECURSIVE count_from(_, _)
count_from(p, hp) ==
    IF p = NullOrder THEN 0 ELSE 1 + count_from(hp[p].siguiente, hp)

count_orders(node, hp) ==
    count_from(IF node.null THEN NullOrder ELSE node.cabeza_pedidos, hp)

\* free_orders walks the list from head and frees every element.  Reaching
\* an element that is not allocated any more is a second free of it (and a
\* read of freed memory): dbl records it, and the walk ends there because
\* the contents of freed memory are indeterminate.
RECURSIVE free_orders(_, _)
free_orders(head, hp) ==
    IF head = NullOrder THEN [heap |-> hp, dbl |-> FALSE]
    ELSE IF ~hp[head].live THEN [heap |-> hp, dbl |-> TRUE]
    ELSE free_orders(hp[head].siguiente, [hp EXCEPT ![head] = FreeCell])

\* The scan that compares the destination only.
RECURSIVE cancel_scan_dest(_, _, _, _, _, _)
cancel_scan_dest(node, prev, cur, destino, cantidad, hp) ==
    IF cur = NullOrder THEN [ok |-> FALSE, node |-> node, heap |-> hp]
    ELSE IF hp[cur].nombre_destino = destino
    THEN LET n1 == IF prev = NullOrder
                   THEN [node EXCEPT
                           !.cabeza_pedidos = hp[cur].siguiente,
                           !.tail = IF node.tail = cur THEN NullOrder
                                    ELSE node.tail]
                   ELSE [node EXCEPT
                           !.tail = IF node.tail = cur THEN prev
                                    ELSE node.tail]
             h1 == IF prev = NullOrder THEN hp
                   ELSE [hp EXCEPT ![prev].siguiente = hp[cur].siguiente]
         IN  [ok |-> TRUE,
              node |-> [n1 EXCEPT !.stock_total = n1.stock_total + cantidad],
              heap |-> [h1 EXCEPT ![cur] = FreeCell]]
    ELSE cancel_scan_dest(node, cur, hp[cur].siguiente, destino, cantidad, hp)

\* The scan that unlinks the order and leaves the stock as it is.
RECURSIVE cancel_scan_keep_stock(_, _, _, _, _, _)
cancel_scan_keep_stock(node, prev, cur, destino, cantidad, hp) ==
    IF cur = NullOrder THEN [ok |-> FALSE, node |-> node, heap |-> hp]
    ELSE IF hp[cur].nombre_destino = destino
            /\ hp[cur].cantidad_solicitada = cantidad
    THEN LET n1 == IF prev = NullOrder
                   THEN [node EXCEPT
                           !.cabeza_pedidos = hp[cur].siguiente,
                           !.tail = IF node.tail = cur THEN NullOrder
                                    ELSE node.tail]
                   ELSE [node EXCEPT
                           !.tail = IF node.tail = cur THEN prev
                                    ELSE node.tail]
             h1 == IF prev = NullOrder THEN hp
                   ELSE [hp EXCEPT ![prev].siguiente = hp[cur].siguiente]
         IN  [ok |-> TRUE,
              node |-> n1,
              heap |-> [h1 EXCEPT ![cur] = FreeCell]]
    ELSE cancel_scan_keep_stock(node, cur, hp[cur].siguiente, destino, cantidad, hp)

\* The scan that unlinks the order and never moves the tail pointer.
RECURSIVE cancel_scan_keep_tail(_, _, _, _, _, _)
cancel_scan_keep_tail(node, prev, cur, destino, cantidad, hp) ==
    IF cur = NullOrder THEN [ok |-> FALSE, node |-> node, heap |-> hp]
    ELSE IF hp[cur].nombre_destino = destino
            /\ hp[cur].cantidad_solicitada = cantidad
    THEN LET n1 == IF prev = NullOrder
                   THEN [node EXCEPT !.cabeza_pedidos = hp[cur].siguiente]
                   ELSE node
             h1 == IF prev = NullOrder THEN hp
                   ELSE [hp EXCEPT ![prev].siguiente = hp[cur].siguiente]
         IN  [ok |-> TRUE,
              node |-> [n1 EXCEPT !.stock_total = n1.stock_total + cantidad],
              heap |-> [h1 EXCEPT ![cur] = FreeCell]]
    ELSE cancel_scan_keep_tail(node, cur, hp[cur].siguiente, destino, cantidad, hp)

\* The scan that unlinks the last order that matches instead of the first.
RECURSIVE cancel_scan_last(_, _, _, _, _, _)
cancel_scan_last(node, prev, cur, destino, cantidad, hp) ==
    IF cur = NullOrder THEN [ok |-> FALSE, node |-> node, heap |-> hp]
    ELSE LET r == cancel_scan_last(node, cur, hp[cur].siguiente,
                                   destino, cantidad, hp)
         IN  IF r.ok THEN r
             ELSE IF hp[cur].nombre_destino = destino
                     /\ hp[cur].cantidad_solicitada = cantidad
             THEN LET n1 == IF prev = NullOrder
                            THEN [node EXCEPT
                                    !.cabeza_pedidos = hp[cur].siguiente,
                                    !.tail = IF node.tail = cur THEN NullOrder
                                             ELSE node.tail]
                            ELSE [node EXCEPT
                                    !.tail = IF node.tail = cur THEN prev
                                             ELSE node.tail]
                      h1 == IF prev = NullOrder THEN hp
                            ELSE [hp EXCEPT ![prev].siguiente = hp[cur].siguiente]
                  IN  [ok |-> TRUE,
                       node |-> [n1 EXCEPT !.stock_total = n1.stock_total + cantidad],
                       heap |-> [h1 EXCEPT ![cur] = FreeCell]]
             ELSE r

\* The scan of cancel_order_in_node from cur, prev being its predecessor.
RECURSIVE cancel_scan(_, _, _, _, _, _)
cancel_scan(node, prev, cur, destino, cantidad, hp) ==
    IF cur = NullOrder THEN [ok |-> FALSE, node |-> node, heap |-> hp]
    ELSE IF hp[cur].nombre_destino = destino
            /\ hp[cur].cantidad_solicitada = cantidad
    THEN LET n1 == IF prev = NullOrder
                   THEN [node EXCEPT
                           !.cabeza_pedidos = hp[cur].siguiente,
                           !.tail = IF node.tail = cur THEN NullOrder
                                    ELSE node.tail]
                   ELSE [node EXCEPT
                           !.tail = IF node.tail = cur THEN prev
                                    ELSE node.tail]
             h1 == IF prev = NullOrder THEN hp
                   ELSE [hp EXCEPT ![prev].siguiente = hp[cur].siguiente]
         IN  [ok |-> TRUE,
              node |-> [n1 EXCEPT !.stock_total = n1.stock_total + cantidad],
              heap |-> [h1 EXCEPT ![cur] = FreeCell]]
    ELSE cancel_scan(node, cur, hp[cur].siguiente, destino, cantidad, hp)

cancel_order_in_node(node, destino, cantidad, hp) ==
    IF node.null THEN [ok |-> FALSE, node |-> node, heap |-> hp]
    ELSE IF node.cabeza_pedidos = NullOrder
    THEN [ok |-> FALSE, node |-> node, heap |-> hp]
    ELSE cancel_scan(node, NullOrder, node.cabeza_pedidos, destino, cantidad, hp)

(***************************************************************************)
(* Deletion                                                                *)
(***************************************************************************)
\* deleteNode rebalancing that rotates as soon as one side is higher.
delete_rebalance_eager(root0) ==
    IF root0.null THEN root0
    ELSE
    LET r == [root0 EXCEPT
                !.height = 1 + max(height(root0.left), height(root0.right))]
        balance == getBalance(r)
    IN  IF balance >= 1 /\ getBalance(r.left) >= 0
        THEN rightRotate(r)
        ELSE IF balance >= 1 /\ getBalance(r.left) < 0
        THEN rightRotate([r EXCEPT !.left = leftRotate(r.left)])
        ELSE IF balance <= -1 /\ getBalance(r.right) <= 0
        THEN leftRotate(r)
        ELSE IF balance <= -1 /\ getBalance(r.right) > 0
        THEN leftRotate([r EXCEPT !.right = rightRotate(r.right)])
        ELSE r

\* deleteNode rebalancing that leaves a child of balance 0 unrotated.
delete_rebalance_strict(root0) ==
    IF root0.null THEN root0
    ELSE
    LET r == [root0 EXCEPT
                !.height = 1 + max(height(root0.left), height(root0.right))]
        balance == getBalance(r)
    IN  IF balance > 1 /\ getBalance(r.left) > 0
        THEN rightRotate(r)
        ELSE IF balance > 1 /\ getBalance(r.left) < 0
        THEN rightRotate([r EXCEPT !.left = leftRotate(r.left)])
        ELSE IF balance < -1 /\ getBalance(r.right) < 0
        THEN leftRotate(r)
        ELSE IF balance < -1 /\ getBalance(r.right) > 0
        THEN leftRotate([r EXCEPT !.right = rightRotate(r.right)])
        ELSE r

\* The rebalancing that ends deleteNode.
delete_rebalance(root0) ==
    IF root0.null THEN root0
    ELSE
    LET r == [root0 EXCEPT
                !.height = 1 + max(height(root0.left), height(root0.right))]
        balance == getBalance(r)
    IN  IF balance > 1 /\ getBalance(r.left) >= 0
        THEN rightRotate(r)
        ELSE IF balance > 1 /\ getBalance(r.left) < 0
        THEN rightRotate([r EXCEPT !.left = leftRotate(r.left)])
        ELSE IF balance < -1 /\ getBalance(r.right) <= 0
        THEN leftRotate(r)
        ELSE IF balance < -1 /\ getBalance(r.right) > 0
        THEN leftRotate([r EXCEPT !.right = rightRotate(r.right)])
        ELSE r

\* The successor's queue taken over by pointer instead of cloned.
clone_orders_share(node, p, hp) ==
    [node |-> [node EXCEPT !.cabeza_pedidos = p, !.tail = p], heap |-> hp]

\* The loop of deleteNode that clones the successor's orders, from p on,
\* onto node; a failed enqueue_order only prints a warning.
RECURSIVE clone_orders(_, _, _)
clone_orders(node, p, hp) ==
    IF p = NullOrder THEN [node |-> node, heap |-> hp]
    ELSE LET e == enqueue_order(node, hp[p].nombre_destino,
                                hp[p].cantidad_solicitada, hp)
         IN  clone_orders(e.node, e.heap[p].siguiente, e.heap)

\* deleteNode returns ret, the pointer it returns, the heap as it leaves it,
\* and dbl: whether some free_orders it ran reached an element already freed.
RECURSIVE deleteNode(_, _, _)
deleteNode(n, fecha, hp) ==
    IF n.null THEN [ret |-> n, heap |-> hp, dbl |-> FALSE]
    ELSE IF fecha < n.fecha_vencimiento
    THEN LET r == deleteNode(n.left, fecha, hp)
         IN  [ret |-> delete_rebalance([n EXCEPT !.left = r.ret]),
              heap |-> r.heap, dbl |-> r.dbl]
    ELSE IF fecha > n.fecha_vencimiento
    THEN LET r == deleteNode(n.right, fecha, hp)
         IN  [ret |-> delete_rebalance([n EXCEPT !.right = r.ret]),
              heap |-> r.heap, dbl |-> r.dbl]
    ELSE
    LET f1 == free_orders(n.cabeza_pedidos, hp)
    IN  IF n.left.null \/ n.right.null
        THEN LET temp == IF ~n.left.null THEN n.left ELSE n.right
             IN  IF temp.null
                 THEN [ret |-> NullNode, heap |-> f1.heap, dbl |-> f1.dbl]
                 ELSE [ret |-> delete_rebalance(
                                 [n EXCEPT
                                    !.fecha_vencimiento = temp.fecha_vencimiento,
                                    !.producto = copy_name(temp.producto),
                                    !.stock_total = temp.stock_total,
                                    !.cabeza_pedidos = temp.cabeza_pedidos,
                                    !.tail = temp.tail,
                                    !.left = temp.left,
                                    !.right = temp.right,
                                    !.height = temp.height]),
                       heap |-> f1.heap, dbl |-> f1.dbl]
        ELSE LET temp == minValueNode(n.right)
                 n1 == [n EXCEPT
                          !.fecha_vencimiento = temp.fecha_vencimiento,
                          !.producto = copy_name(temp.producto),
                          !.stock_total = temp.stock_total]
                 f2 == free_orders(n1.cabeza_pedidos, f1.heap)
                 n2 == [n1 EXCEPT !.cabeza_pedidos = NullOrder,
                                  !.tail = NullOrder]
                 cl == clone_orders(n2, temp.cabeza_pedidos, f2.heap)
                 r == deleteNode(cl.node.right, temp.fecha_vencimiento, cl.heap)
             IN  [ret |-> delete_rebalance([cl.node EXCEPT !.right = r.ret]),
                  heap |-> r.heap,
                  dbl |-> f1.dbl \/ f2.dbl \/ r.dbl]

\* A write through the pointer that searchNode or minValueNode returned for
\* the key of n: the node with that key becomes n.
RECURSIVE store(_, _)
store(t, n) ==
    IF t.null THEN t
    ELSE IF n.fecha_vencimiento = t.fecha_vencimiento THEN n
    ELSE IF n.fecha_vencimiento < t.fecha_vencimiento
    THEN [t EXCEPT !.left = store(t.left, n)]
    ELSE [t EXCEPT !.right = store(t.right, n)]

(***************************************************************************)
(* Observations of a tree used to state properties.                        *)
(***************************************************************************)
RECURSIVE KeySet(_)
KeySet(n) ==
    IF n.null THEN {}
    ELSE KeySet(n.left) \cup {n.fecha_vencimiento} \cup KeySet(n.right)

RECURSIVE InOrder(_)
InOrder(n) ==
    IF n.null THEN <<>>
    ELSE InOrder(n.left) \o <<n.fecha_vencimiento>> \o InOrder(n.right)

RECURSIVE Size(_)
Size(n) == IF n.null THEN 0 ELSE 1 + Size(n.left) + Size(n.right)

RECURSIVE TrueHeight(_)
TrueHeight(n) ==
    IF n.null THEN 0 ELSE 1 + max(TrueHeight(n.left), TrueHeight(n.right))

RECURSIVE Balanced(_)
Balanced(n) ==
    \/ n.null
    \/ /\ TrueHeight(n.left) - TrueHeight(n.right) \in {-1, 0, 1}
       /\ Balanced(n.left)
       /\ Balanced(n.right)

RECURSIVE IsBST(_)
IsBST(n) ==
    \/ n.null
    \/ /\ \A k \in KeySet(n.left) : k < n.fecha_vencimiento
       /\ \A k \in KeySet(n.right) : k > n.fecha_vencimiento
       /\ IsBST(n.left)
       /\ IsBST(n.right)

RECURSIVE Nodes(_)
Nodes(n) ==
    IF n.null THEN {} ELSE Nodes(n.left) \cup {n} \cup Nodes(n.right)

\* The node of t that holds key k, wherever it is in t.
NodeOf(t, k) == CHOOSE n \in Nodes(t) : n.fecha_vencimiento = k

\* The orders reachable from p, head first, at most fuel of them.
RECURSIVE Pedidos(_, _, _)
Pedidos(p, hp, fuel) ==
    IF p = NullOrder \/ fuel = 0 THEN <<>>
    ELSE <<[destino |-> hp[p].nombre_destino,
            cantidad |-> hp[p].cantidad_solicitada]>>
         \o Pedidos(hp[p].siguiente, hp, fuel - 1)

\* What a lot is to its user: product, stock and the sequence of its orders.
LotView(n, hp) ==
    [producto |-> n.producto,
     stock |-> n.stock_total,
     pedidos |-> Pedidos(n.cabeza_pedidos, hp, HeapSize + 1)]

Lot(t, hp, k) == LotView(NodeOf(t, k), hp)

\* The addresses of the orders reachable from p, head first.
RECURSIVE Cells(_, _, _)
Cells(p, hp, fuel) ==
    IF p = NullOrder \/ fuel = 0 THEN <<>>
    ELSE <<p>> \o Cells(hp[p].siguiente, hp, fuel - 1)

CellsOf(t, hp, k) == Cells(NodeOf(t, k).cabeza_pedidos, hp, HeapSize + 1)

\* The first position of s that holds e.
FirstMatch(s, e) ==
    CHOOSE i \in 1..Len(s) : s[i] = e /\ \A j \in 1..(i - 1) : s[j] # e

\* How many positions of s hold e.
Count(s, e) == Cardinality({i \in 1..Len(s) : s[i] = e})

RemoveAt(s, i) == SubSeq(s, 1, i - 1) \o SubSeq(s, i + 1, Len(s))

\* The lots of a tree in pre-order, the order in which they are written.
RECURSIVE PreOrderLots(_, _)
PreOrderLots(n, hp) ==
    IF n.null THEN <<>>
    ELSE <<[fecha |-> n.fecha_vencimiento, lote |-> LotView(n, hp)]>>
         \o PreOrderLots(n.left, hp)
         \o PreOrderLots(n.right, hp)

\* The k orders at the head of the sequence of fields f.
RECURSIVE FileOrders(_, _)
FileOrders(f, k) ==
    IF k = 0 THEN <<>>
    ELSE <<[destino |-> f[1], cantidad |-> f[2]]>>
         \o FileOrders(SubSeq(f, 3, Len(f)), k - 1)

RECURSIVE SumQty(_)
SumQty(s) == IF s = <<>> THEN 0 ELSE s[1].cantidad + SumQty(Tail(s))

\* The node records of a whole file f, in the order they are in it, each
\* with the fields it declares: date, product, stock, and as many orders as
\* its order count says; the markers of absent children are skipped.
RECURSIVE FileRecords(_)
FileRecords(f) ==
    IF f = <<>> THEN <<>>
    ELSE IF f[1] = marcador THEN FileRecords(Tail(f))
    ELSE <<[fecha |-> f[1], producto |-> f[2], stock |-> f[3],
            pedidos |-> FileOrders(SubSeq(f, 5, Len(f)), f[4])]>>
         \o FileRecords(SubSeq(f, 5 + 2 * f[4], Len(f)))

\* In how many places a queue of the tree t reaches the cell a.
RECURSIVE Owners(_, _, _)
Owners(t, hp, a) ==
    IF t.null THEN 0
    ELSE Count(Cells(t.cabeza_pedidos, hp, HeapSize + 1), a)
         + Owners(t.left, hp, a) + Owners(t.right, hp, a)

MinKey(t) == CHOOSE k \in KeySet(t) : \A j \in KeySet(t) : k <= j

\* The lots of a tree in in-order sequence, each with its date.
RECURSIVE Lots(_, _)
Lots(n, hp) ==
    IF n.null THEN <<>>
    ELSE Lots(n.left, hp)
         \o <<[fecha |-> n.fecha_vencimiento, lote |-> LotView(n, hp)]>>
         \o Lots(n.right, hp)

(***************************************************************************)
(* Persistence: the file is the sequence of the fields written, in order.  *)
(***************************************************************************)
RECURSIVE guardar_pedidos(_, _)
guardar_pedidos(p, hp) ==
    IF p = NullOrder THEN <<>>
    ELSE <<hp[p].nombre_destino, hp[p].cantidad_solicitada>>
         \o guardar_pedidos(hp[p].siguiente, hp)

RECURSIVE guardar_nodo(_, _)
guardar_nodo(n, hp) ==
    IF n.null THEN <<marcador>>
    ELSE <<n.fecha_vencimiento, n.producto, n.stock_total, count_orders(n, hp)>>
         \o guardar_pedidos(n.cabeza_pedidos, hp)
         \o guardar_nodo(n.left, hp)
         \o guardar_nodo(n.right, hp)

guardar_arbol(r, hp) == guardar_nodo(r, hp)

\* free_tree: both subtrees, then the queue of the node, then the node.
RECURSIVE free_tree(_, _)
free_tree(n, hp) ==
    IF n.null THEN [heap |-> hp, dbl |-> FALSE]
    ELSE LET l == free_tree(n.left, hp)
             r == free_tree(n.right, l.heap)
             q == free_orders(n.cabeza_pedidos, r.heap)
         IN  [heap |-> q.heap, dbl |-> l.dbl \/ r.dbl \/ q.dbl]

Drop(s, k) == SubSeq(s, k + 1, Len(s))

\* The loop that enqueues the orders it reads and leaves the stock as read.
RECURSIVE cargar_pedidos_keep_stock(_, _, _, _, _)
cargar_pedidos_keep_stock(n, i, num_pedidos, f, hp) ==
    IF ~(i < num_pedidos) THEN [failed |-> FALSE, node |-> n, rest |-> f, heap |-> hp]
    ELSE IF Len(f) < 2
    THEN [failed |-> TRUE, node |-> NullNode, rest |-> <<>>,
          heap |-> free_tree(n, hp).heap]
    ELSE LET e == enqueue_order(n, f[1], f[2], hp)
         IN  cargar_pedidos_keep_stock(e.node, i + 1, num_pedidos, Drop(f, 2), e.heap)

\* The loop of cargar_nodo that reads the orders i..num_pedidos-1 of node n
\* from the stream f.  failed: a read came up short and the node was freed.
RECURSIVE cargar_pedidos(_, _, _, _, _)
cargar_pedidos(n, i, num_pedidos, f, hp) ==
    IF ~(i < num_pedidos) THEN [failed |-> FALSE, node |-> n, rest |-> f, heap |-> hp]
    ELSE IF Len(f) < 2
    THEN [failed |-> TRUE, node |-> NullNode, rest |-> <<>>,
          heap |-> free_tree(n, hp).heap]
    ELSE LET e == enqueue_order(n, f[1], f[2], hp)
         IN  cargar_pedidos([e.node EXCEPT !.stock_total = e.node.stock_total - f[2]],
                            i + 1, num_pedidos, Drop(f, 2), e.heap)

\* cargar_nodo reads one subtree from the stream f; rest is what is left of
\* the stream (nothing after a read that came up short).
RECURSIVE cargar_nodo(_, _)
cargar_nodo(f, hp) ==
    IF Len(f) < 1 THEN [ret |-> NullNode, rest |-> <<>>, heap |-> hp]
    ELSE IF f[1] = marcador THEN [ret |-> NullNode, rest |-> Drop(f, 1), heap |-> hp]
    ELSE IF Len(f) < 3 THEN [ret |-> NullNode, rest |-> <<>>, heap |-> hp]
    ELSE LET n == newNode(f[1], f[2], f[3], TRUE)
         IN  IF Len(f) < 4 THEN [ret |-> NullNode, rest |-> <<>>, heap |-> hp]
             ELSE LET q == cargar_pedidos(n, 0, f[4], Drop(f, 4), hp)
                  IN  IF q.failed
                      THEN [ret |-> NullNode, rest |-> <<>>, heap |-> q.heap]
                      ELSE LET l == cargar_nodo(q.rest, q.heap)
                               r == cargar_nodo(l.rest, l.heap)
                               n1 == [q.node EXCEPT !.left = l.ret, !.right = r.ret]
                           IN  [ret |-> [n1 EXCEPT !.height =
                                           1 + max(height(n1.left), height(n1.right))],
                                rest |-> r.rest,
                                heap |-> r.heap]

\* cargar_arbol: no file (fopen fails) gives NULL.
cargar_arbol(f, hp) ==
    IF f = <<>> THEN [ret |-> NullNode, heap |-> hp]
    ELSE LET c == cargar_nodo(f, hp) IN [ret |-> c.ret, heap |-> c.heap]

(***************************************************************************)
(* State machine                                                           *)
(***************************************************************************)
LiveCount(hp) == Cardinality(Addrs \ FreeAddrs(hp))

\* The record of the last operation: the menu option and how it ended; for
\* a removal that reached deleteNode and for a cancellation that found its
\* order, the key it was given (0 otherwise); for such a removal, which of
\* the cases of deleteNode the removed node was; for such a cancellation,
\* which of the cases of cancel_order_in_node the order was.
Op(name, result, fecha, kind) ==
    [name |-> name, result |-> result, fecha |-> fecha, kind |-> kind]

delete_case(t, fecha) ==
    LET n == searchNode(t, fecha)
    IN  IF n.left.null /\ n.right.null THEN "leaf"
        ELSE IF n.left.null \/ n.right.null THEN "one_child"
        ELSE "two_children"

\* Which of the cases of cancel_order_in_node unlinks the order that a
\* successful cancellation frees: the only order, the head, the tail or one
\* in the middle of the queue.
cancel_case(node, destino, cantidad, hp) ==
    LET c == cancel_order_in_node(node, destino, cantidad, hp)
        cur == CHOOSE a \in Addrs : hp[a].live /\ ~c.heap[a].live
    IN  IF cur = node.cabeza_pedidos /\ cur = node.tail THEN "only"
        ELSE IF cur = node.cabeza_pedidos THEN "head"
        ELSE IF cur = node.tail THEN "tail"
        ELSE "middle"

\* What free() does when given an element that is already freed is
\* undefined: the allocator either detects it and aborts the process, or
\* lets it pass.
DoubleFreeOutcomes == {"abort", "ignored"}

Init ==
    /\ root = NullNode
    /\ heap = EmptyHeap
    /\ file = <<>>
    /\ op = Op("init", "ok", 0, "")
    /\ aborted = FALSE
    /\ nops = 0
    /\ raiz = [null |-> TRUE]

\* Menu option 1: reception of one lot.
InsertLot(fecha, producto, cantidad, mem) ==
    /\ ~aborted
    /\ IF ~searchNode(root, fecha).null
       THEN /\ root' = root
            /\ op' = Op("insert", "duplicate", 0, "")
       ELSE LET r == insertAVL(root, fecha, producto, cantidad, mem)
            IN  IF ~r.ret.null
                THEN /\ root' = r.ret
                     /\ op' = Op("insert", "ok", 0, "")
                ELSE /\ root' = r.cur
                     /\ op' = Op("insert", "memory", 0, "")
    /\ UNCHANGED <<heap, file, aborted>>

\* Menu option 3: an order against the lot nearest to expiry, in a run in
\* which fewer than limit orders are alive when it is placed.
DispatchUpTo(destino, qty, limit) ==
    /\ ~aborted
    /\ IF root.null
       THEN /\ op' = Op("dispatch", "no_inventory", 0, "")
            /\ UNCHANGED <<root, heap>>
       ELSE LET lote == minValueNode(root)
            IN  IF qty <= 0
                THEN /\ op' = Op("dispatch", "invalid", 0, "")
                     /\ UNCHANGED <<root, heap>>
                ELSE IF qty > lote.stock_total
                THEN /\ op' = Op("dispatch", "insufficient", 0, "")
                     /\ UNCHANGED <<root, heap>>
                ELSE LET e == enqueue_order(lote, destino, qty, heap)
                     IN  /\ LiveCount(heap) < limit
                         /\ IF e.ok
                            THEN /\ root' = store(root,
                                       [e.node EXCEPT !.stock_total =
                                                        e.node.stock_total - qty])
                                 /\ heap' = e.heap
                                 /\ op' = Op("dispatch", "ok", 0, "")
                            ELSE /\ op' = Op("dispatch", "memory", 0, "")
                                 /\ UNCHANGED <<root, heap>>
    /\ UNCHANGED <<file, aborted>>

\* Menu option 3 while at most MaxOrders orders are alive: malloc succeeds.
Dispatch(destino, qty) == DispatchUpTo(destino, qty, MaxOrders)

\* A cell of the heap that belongs to another allocation of the process:
\* malloc cannot hand it out.
HeldCell == [live |-> TRUE, nombre_destino |-> "", cantidad_solicitada |-> 0,
             siguiente |-> NullOrder]

Hold(hp, taken) == [a \in Addrs |-> IF a \in taken THEN HeldCell ELSE hp[a]]

Release(hp, taken) == [a \in Addrs |-> IF a \in taken THEN FreeCell ELSE hp[a]]

\* Menu option 4: removal of a whole lot, while the free cells in taken are
\* not available to malloc.
RemoveLotWith(fecha, confirmar, taken) ==
    /\ ~aborted
    /\ IF searchNode(root, fecha).null
       THEN /\ op' = Op("remove", "not_found", 0, "")
            /\ UNCHANGED <<root, heap, aborted>>
       ELSE IF ~confirmar
       THEN /\ op' = Op("remove", "cancelled", 0, "")
            /\ UNCHANGED <<root, heap, aborted>>
       ELSE LET r == deleteNode(root, fecha, Hold(heap, taken))
            IN  \E outcome \in IF r.dbl THEN DoubleFreeOutcomes ELSE {"none"} :
                  IF outcome = "abort"
                  THEN \* the process is gone: root and heap keep the values
                       \* of the last completed operation
                       /\ aborted' = TRUE
                       /\ op' = Op("remove", "abort", fecha, delete_case(root, fecha))
                       /\ UNCHANGED <<root, heap>>
                  ELSE /\ root' = r.ret
                       /\ heap' = Release(r.heap, taken)
                       /\ op' = Op("remove", IF r.dbl THEN "double_free" ELSE "ok",
                                  fecha, delete_case(root, fecha))
                       /\ UNCHANGED aborted
    /\ UNCHANGED file

\* Menu option 4 while every malloc succeeds.
RemoveLot(fecha, confirmar) == RemoveLotWith(fecha, confirmar, {})

\* Menu option 5: cancellation of one order of a lot.
CancelOrder(fecha, destino, cantidad) ==
    /\ ~aborted
    /\ LET n == searchNode(root, fecha)
       IN  IF n.null
           THEN /\ op' = Op("cancel", "no_lot", 0, "")
                /\ UNCHANGED <<root, heap>>
           ELSE IF n.cabeza_pedidos = NullOrder
           THEN /\ op' = Op("cancel", "empty_queue", 0, "")
                /\ UNCHANGED <<root, heap>>
           ELSE LET c == cancel_order_in_node(n, destino, cantidad, heap)
                IN  IF c.ok
                    THEN /\ root' = store(root, c.node)
                         /\ heap' = c.heap
                         /\ op' = Op("cancel", "ok", fecha,
                                    cancel_case(n, destino, cantidad, heap))
                    ELSE /\ op' = Op("cancel", "not_found", 0, "")
                         /\ UNCHANGED <<root, heap>>
    /\ UNCHANGED <<file, aborted>>

\* Menu option 7: save the inventory.
Save ==
    /\ ~aborted
    /\ file' = guardar_arbol(root, heap)
    /\ op' = Op("save", "ok", 0, "")
    /\ UNCHANGED <<root, heap, aborted>>

\* Menu option 8: load the inventory, replacing the one in memory.
Load(respuesta) ==
    /\ ~aborted
    /\ IF ~root.null /\ ~respuesta
       THEN /\ op' = Op("load", "cancelled", 0, "")
            /\ UNCHANGED <<root, heap>>
       ELSE LET fr == free_tree(root, heap)
                c == cargar_arbol(file, fr.heap)
            IN  /\ root' = c.ret
                /\ heap' = c.heap
                /\ op' = Op("load", IF c.ret.null THEN "failed" ELSE "ok", 0, "")
    /\ UNCHANGED <<file, aborted>>

\* The file cut short on disk: what fread can deliver to cargar_nodo is a
\* proper prefix of what guardar_arbol wrote.
Truncate(len) ==
    /\ ~aborted
    /\ len < Len(file)
    /\ file' = SubSeq(file, 1, len)
    /\ op' = Op("truncate", "ok", 0, "")
    /\ UNCHANGED <<root, heap, aborted>>

TreeOp ==
    \/ \E k \in Keys, p \in Products, s \in Stocks : InsertLot(k, p, s, TRUE)
    \/ \E d \in Dests, q \in Qtys : Dispatch(d, q)
    \/ \E k \in Keys, c \in BOOLEAN : RemoveLot(k, c)
    \/ \E k \in Keys, d \in Dests, q \in CancelQtys : CancelOrder(k, d, q)

\* The inventory without its persistence.
Next == TreeOp /\ UNCHANGED <<nops, raiz>>

Spec == Init /\ [][Next]_vars

\* Receptions and removals only, over a larger set of dates.
NextTree ==
    /\ \/ \E k \in TreeKeys, p \in Products, s \in Stocks : InsertLot(k, p, s, TRUE)
       \/ \E k \in TreeKeys, c \in BOOLEAN : RemoveLot(k, c)
    /\ UNCHANGED <<nops, raiz>>

SpecTree == Init /\ [][NextTree]_vars

\* The inventory with save and load, over runs of at most MaxOps operations.
NextPersist ==
    /\ nops < MaxOps
    /\ nops' = nops + 1
    /\ UNCHANGED raiz
    /\ (TreeOp \/ Save \/ \E r \in BOOLEAN : Load(r))

SpecPersist == Init /\ [][NextPersist]_vars

\* Two lots of one product received with one unit of stock more, and one
\* order more alive: queues of up to MaxOrders + 1 orders.
QueueKeys == {1, 2}
QueueProducts == {"arroz"}
QueueStocks == {MaxStock + 1}
QueueQtys == 1..(MaxStock + 1)

NextQueue ==
    /\ \/ \E k \in QueueKeys, p \in QueueProducts, s \in QueueStocks :
             InsertLot(k, p, s, TRUE)
       \/ \E d \in Dests, q \in Qtys : DispatchUpTo(d, q, MaxOrders + 1)
       \/ \E k \in QueueKeys, c \in BOOLEAN : RemoveLot(k, c)
       \/ \E k \in QueueKeys, d \in Dests, q \in QueueQtys : CancelOrder(k, d, q)
    /\ UNCHANGED <<nops, raiz>>

SpecQueue == Init /\ [][NextQueue]_vars

\* The inventory with save and load when the file may be cut short between
\* the two.
NextCorrupt ==
    /\ nops < MaxOps
    /\ nops' = nops + 1
    /\ UNCHANGED raiz
    /\ \/ TreeOp
       \/ Save
       \/ \E r \in BOOLEAN : Load(r)
       \/ \E len \in 0..(Len(file) - 1) : Truncate(len)

SpecCorrupt == Init /\ [][NextCorrupt]_vars

\* The inventory when malloc may fail: the malloc of a Node fails at any
\* time, the malloc of an Order fails when the rest of the heap is taken.
MemKeys == 1..(MaxKey - 1)

NextMem ==
    /\ \/ \E k \in MemKeys, p \in Products, s \in Stocks, m \in BOOLEAN :
             InsertLot(k, p, s, m)
       \/ \E d \in Dests, q \in Qtys : Dispatch(d, q)
       \/ \E k \in MemKeys, c \in BOOLEAN, taken \in SUBSET FreeAddrs(heap) :
             RemoveLotWith(k, c, taken)
       \/ \E k \in MemKeys, d \in Dests, q \in CancelQtys : CancelOrder(k, d, q)
    /\ UNCHANGED <<nops, raiz>>

SpecMem == Init /\ [][NextMem]_vars

\* The inventory with one product, each date received with a stock of its
\* own, so that the stock a lot was given is read off its date.
GivenStock(k) == IF k % 2 = 1 THEN MaxStock ELSE MaxStock - 1

NextStock ==
    /\ \/ \E k \in Keys, p \in QueueProducts : InsertLot(k, p, GivenStock(k), TRUE)
       \/ \E d \in Dests, q \in Qtys : Dispatch(d, q)
       \/ \E k \in Keys, c \in BOOLEAN : RemoveLot(k, c)
       \/ \E k \in Keys, d \in Dests, q \in CancelQtys : CancelOrder(k, d, q)
    /\ UNCHANGED <<nops, raiz>>

SpecStock == Init /\ [][NextStock]_vars

(***************************************************************************)
(* arbol.c: the binary search tree of passengers keyed by documento        *)
(***************************************************************************)
Docs == 1..MaxDoc
Destinos == {"Guapi", "Tumaco"}
Tipos == {"Ida", "Regreso"}

\* The NULL Pasajero pointer.
NullPasajero == [null |-> TRUE]

\* strcpy into a char[20] field: the names the menu offers are shorter than
\* the field and are copied whole.
strcpy(s) == s

\* Line 16 is written without the pointer asterisks; lines 17 to 21 and the
\* return type use p as a pointer to the new node, which is what is modelled.
\* The result of malloc is not checked; the allocation is taken to succeed.
nuevoPasajero(documento, destino, tipo) ==
    [null |-> FALSE,
     documento |-> documento,
     destino |-> strcpy(destino),
     tipo_pasaje |-> strcpy(tipo),
     izq |-> NullPasajero,
     der |-> NullPasajero]

RECURSIVE insertar(_, _, _, _)
insertar(r, documento, destino, tipo) ==
    IF r.null THEN nuevoPasajero(documento, destino, tipo)
    ELSE IF documento < r.documento
    THEN [r EXCEPT !.izq = insertar(r.izq, documento, destino, tipo)]
    ELSE IF documento > r.documento
    THEN [r EXCEPT !.der = insertar(r.der, documento, destino, tipo)]
    ELSE r

\* Whether insertar reaches the branch that prints that the document exists.
RECURSIVE ya_existe(_, _)
ya_existe(r, documento) ==
    IF r.null THEN FALSE
    ELSE IF documento < r.documento THEN ya_existe(r.izq, documento)
    ELSE IF documento > r.documento THEN ya_existe(r.der, documento)
    ELSE TRUE

RECURSIVE contar(_)
contar(r) == IF r.null THEN 0 ELSE 1 + contar(r.izq) + contar(r.der)

RECURSIVE minimo(_)
minimo(r) == IF ~r.null /\ ~r.izq.null THEN minimo(r.izq) ELSE r

\* eliminar that moves the successor's documento up without its destino and
\* tipo_pasaje.
RECURSIVE eliminar_keep_data(_, _)
eliminar_keep_data(r, documento) ==
    IF r.null THEN r
    ELSE IF documento < r.documento
    THEN [r EXCEPT !.izq = eliminar_keep_data(r.izq, documento)]
    ELSE IF documento > r.documento
    THEN [r EXCEPT !.der = eliminar_keep_data(r.der, documento)]
    ELSE IF r.izq.null THEN r.der
    ELSE IF r.der.null THEN r.izq
    ELSE LET temp == minimo(r.der)
         IN  [r EXCEPT !.documento = temp.documento,
                       !.der = eliminar_keep_data(r.der, temp.documento)]

RECURSIVE eliminar(_, _)
eliminar(r, documento) ==
    IF r.null THEN r
    ELSE IF documento < r.documento
    THEN [r EXCEPT !.izq = eliminar(r.izq, documento)]
    ELSE IF documento > r.documento
    THEN [r EXCEPT !.der = eliminar(r.der, documento)]
    ELSE IF r.izq.null THEN r.der
    ELSE IF r.der.null THEN r.izq
    ELSE LET temp == minimo(r.der)
         IN  [r EXCEPT !.documento = temp.documento,
                       !.destino = strcpy(temp.destino),
                       !.tipo_pasaje = strcpy(temp.tipo_pasaje),
                       !.der = eliminar(r.der, temp.documento)]

\* The branch of eliminar that the node holding documento is handled by.
RECURSIVE eliminar_case(_, _)
eliminar_case(r, documento) ==
    IF r.null THEN "absent"
    ELSE IF documento < r.documento THEN eliminar_case(r.izq, documento)
    ELSE IF documento > r.documento THEN eliminar_case(r.der, documento)
    ELSE IF r.izq.null THEN "no_left"
    ELSE IF r.der.null THEN "no_right"
    ELSE "two_children"

\* The documents of a passenger tree.
RECURSIVE DocSet(_)
DocSet(r) ==
    IF r.null THEN {} ELSE DocSet(r.izq) \cup {r.documento} \cup DocSet(r.der)

RECURSIVE Pasajeros(_)
Pasajeros(r) ==
    IF r.null THEN {} ELSE Pasajeros(r.izq) \cup {r} \cup Pasajeros(r.der)

\* The destination and ticket type registered for the document d.
Datos(r, d) ==
    LET p == CHOOSE n \in Pasajeros(r) : n.documento = d
    IN  <<p.destino, p.tipo_pasaje>>

RECURSIVE IsABB(_)
IsABB(r) ==
    \/ r.null
    \/ /\ \A d \in DocSet(r.izq) : d < r.documento
       /\ \A d \in DocSet(r.der) : d > r.documento
       /\ IsABB(r.izq)
       /\ IsABB(r.der)

\* Menu option 1 of arbol.c.
Insertar(documento, destino, tipo) ==
    /\ raiz' = insertar(raiz, documento, destino, tipo)
    /\ op' = Op("insertar",
                IF ya_existe(raiz, documento) THEN "duplicate" ELSE "ok",
                documento, "")
    /\ UNCHANGED <<root, heap, file, aborted, nops>>

\* Menu option 5 of arbol.c.
Contar ==
    /\ op' = Op("contar", "ok", contar(raiz), "")
    /\ UNCHANGED <<raiz, root, heap, file, aborted, nops>>

\* Menu option 6 of arbol.c.
Eliminar(documento) ==
    /\ raiz' = eliminar(raiz, documento)
    /\ op' = Op("eliminar", "ok", documento, eliminar_case(raiz, documento))
    /\ UNCHANGED <<root, heap, file, aborted, nops>>

NextPasajeros ==
    \/ \E d \in Docs, de \in Destinos, t \in Tipos : Insertar(d, de, t)
    \/ Contar
    \/ \E d \in Docs : Eliminar(d)

SpecPasajeros == Init /\ [][NextPasajeros]_vars

(***************************************************************************)
(* Properties                                                              *)
(***************************************************************************)

\* C1: after any sequence of insertions and removals, at every node the
\* true heights of the two subtrees differ by at most one.
C1_AVLBalanced == Balanced(root)

C1_Witness ==
    /\ op.name = "remove" /\ op.result = "ok"
    /\ Size(root) = 4 /\ TrueHeight(root) = 3

\* C2: the in-order traversal is strictly ascending: at every node the keys
\* on the left are smaller and the keys on the right are larger, and no key
\* is held by two nodes.
C2_StrictlyAscending ==
    /\ IsBST(root)
    /\ \A i \in 1..(Len(InOrder(root)) - 1) : InOrder(root)[i] < InOrder(root)[i + 1]
    /\ Cardinality(KeySet(root)) = Size(root)

C2_Witness ==
    /\ op.name = "remove" /\ op.kind = "two_children" /\ op.result = "ok"
    /\ Len(InOrder(root)) = 4

\* C3: receiving a lot whose date is already in the tree changes nothing:
\* same tree, same product, stock and queue of every lot, and the reception
\* is reported as a duplicate.
C3_DuplicateInsertNoOp ==
    [][op'.name = "insert" =>
         \A k \in KeySet(root), p \in Products, s \in Stocks :
            InsertLot(k, p, s, TRUE)
              => (root' = root /\ heap' = heap /\ op'.result = "duplicate")]_vars

C3_Witness ==
    /\ op.name = "insert" /\ op.result = "duplicate"
    /\ \E n \in Nodes(root) : n.cabeza_pedidos # NullOrder

\* C4: a removal of a key of the tree that completes leaves a tree in which
\* the key is not found, whose keys are the former keys without it, and which
\* is balanced.
C4_RemoveExactlyKey ==
    [][op'.name = "remove" =>
         \A k \in KeySet(root) :
            (RemoveLot(k, TRUE) /\ ~aborted')
              => /\ searchNode(root', k).null
                 /\ KeySet(root') = KeySet(root) \ {k}
                 /\ Balanced(root')]_vars

C4_Witness ==
    /\ op.name = "remove" /\ op.kind = "one_child" /\ op.result = "ok"
    /\ op.fecha \notin KeySet(root)
    /\ Size(root) = 3

\* C5: a save followed at once by a load gives back the same lots: the same
\* dates in the same in-order sequence and, for every lot, the same product,
\* stock and sequence of orders.
C5_SaveLoadRoundTrip ==
    [][(op.name = "save" /\ op'.name = "load" /\ op'.result # "cancelled")
         => Lots(root', heap') = Lots(root, heap)]_vars

\* C6: the stock of every lot is at least 0.
C6_StockNonNegative == \A n \in Nodes(root) : n.stock_total >= 0

\* C7: an order for a positive quantity that the lot with the smallest date
\* can supply is appended at the end of the queue of that lot, whose stock
\* drops by the quantity; no other lot changes.
C7_DispatchOnNearestLot ==
    [][op'.name = "dispatch" =>
         \A d \in Dests, q \in Qtys :
            (/\ Dispatch(d, q)
             /\ ~root.null
             /\ 0 < q
             /\ q <= Lot(root, heap, MinKey(root)).stock)
              => LET k == MinKey(root)
                     before == Lot(root, heap, k)
                 IN  /\ KeySet(root') = KeySet(root)
                     /\ Lot(root', heap', k) =
                          [before EXCEPT
                             !.stock = @ - q,
                             !.pedidos = Append(@, [destino |-> d, cantidad |-> q])]
                     /\ \A j \in KeySet(root) \ {k} :
                          Lot(root', heap', j) = Lot(root, heap, j)]_vars

C7_Witness ==
    /\ op.name = "dispatch" /\ op.result = "ok"
    /\ Size(root) >= 3
    /\ MinKey(root) # root.fecha_vencimiento
    /\ Len(Lot(root, heap, MinKey(root)).pedidos) = 2
    /\ \E j \in KeySet(root) : j # MinKey(root) /\ Lot(root, heap, j).stock > 0

\* C8: an order on an empty tree ends as no inventory, an order for more
\* than the stock of the lot with the smallest date ends as insufficient
\* stock, and neither changes a stock or a queue.
C8_DispatchFailures ==
    [][op'.name = "dispatch" =>
         \A d \in Dests, q \in Qtys :
            Dispatch(d, q)
              => /\ root.null
                    => (op'.result = "no_inventory" /\ UNCHANGED <<root, heap>>)
                 /\ (~root.null /\ q > Lot(root, heap, MinKey(root)).stock)
                    => (op'.result = "insufficient" /\ UNCHANGED <<root, heap>>)]_vars

C8_Witness ==
    /\ op.name = "dispatch" /\ op.result = "insufficient"
    /\ Size(root) >= 2
    /\ Lot(root, heap, MinKey(root)).stock = 0
    /\ \E j \in KeySet(root) : Lot(root, heap, j).stock > 0

\* C9: no removal frees an order element twice.
C9_NoDoubleRelease ==
    ~(op.name = "remove" /\ op.result \in {"double_free", "abort"})

\* C10: a removal that completes leaves every other lot in the tree with its
\* product, stock and sequence of orders; this includes the in-order
\* successor of a removed node with two children, whose data moves up.
C10_RemoveKeepsOtherLots ==
    [][op'.name = "remove" =>
         \A k \in KeySet(root) :
            (RemoveLot(k, TRUE) /\ ~aborted')
              => \A j \in KeySet(root) \ {k} :
                    /\ j \in KeySet(root')
                    /\ Lot(root', heap', j) = Lot(root, heap, j)]_vars

C10_Witness ==
    /\ op.name = "remove" /\ op.kind = "two_children" /\ op.result = "ok"
    /\ \E j \in KeySet(root) :
          /\ j > op.fecha
          /\ \A i \in KeySet(root) : i > op.fecha => j <= i
          /\ root.fecha_vencimiento = j
          /\ Len(Lot(root, heap, j).pedidos) = 2
          /\ Lot(root, heap, j).pedidos[1] # Lot(root, heap, j).pedidos[2]

\* C11: a reception that fails for lack of memory is reported and leaves the
\* tree exactly as it was: same nodes, same child links, same heights.
C11_FailedInsertKeepsTree ==
    [][(op'.name = "insert" /\ op'.result = "memory") => root' = root]_vars

\* C16: a removal never applies a partial mutation, also when the malloc of
\* an order fails while the successor's queue is cloned: either the lot is
\* removed and every other lot keeps its product, stock and sequence of
\* orders, or tree and queues are exactly as before.
C16_RemoveAllOrNothing ==
    [][op'.name = "remove" =>
         \A k \in KeySet(root), taken \in SUBSET FreeAddrs(heap) :
            (RemoveLotWith(k, TRUE, taken) /\ ~aborted')
              => \/ /\ k \notin KeySet(root')
                    /\ \A j \in KeySet(root) \ {k} :
                          /\ j \in KeySet(root')
                          /\ Lot(root', heap', j) = Lot(root, heap, j)
                 \/ (root' = root /\ heap' = heap)]_vars

\* C12: a load of a file that has been cut short at any point fails: it
\* returns no tree and leaves no order allocated.
C12_TruncatedLoadFails ==
    [][(op.name = "truncate" /\ op'.name = "load" /\ op'.result # "cancelled")
         => (root'.null /\ LiveCount(heap') = 0)]_vars

\* C13: a cancellation on a lot whose queue holds an order with the given
\* destination and quantity frees exactly the first such order, head to
\* tail; the other orders keep their cells and their relative order, and the
\* stock of the lot rises by the quantity.
C13_CancelFirstMatch ==
    [][op'.name = "cancel" =>
         \A k \in KeySet(root) :
            LET before == Lot(root, heap, k)
                cells == CellsOf(root, heap, k)
            IN  \A m \in 1..Len(before.pedidos) :
                   LET e == before.pedidos[m]
                       i == FirstMatch(before.pedidos, e)
                   IN  CancelOrder(k, e.destino, e.cantidad)
                         => /\ op'.result = "ok"
                            /\ Lot(root', heap', k) =
                                 [before EXCEPT !.stock = @ + e.cantidad,
                                                !.pedidos = RemoveAt(@, i)]
                            /\ CellsOf(root', heap', k) = RemoveAt(cells, i)
                            /\ ~heap'[cells[i]].live]_vars

\* A cancellation freed the head of a queue of three orders of one unit, of
\* which two are left with different destinations: one of them is equal to
\* the order cancelled.
C13_Witness ==
    /\ op.name = "cancel" /\ op.result = "ok" /\ op.kind = "head"
    /\ LET l == Lot(root, heap, op.fecha)
       IN  /\ Len(l.pedidos) = MaxOrders
           /\ l.stock = MaxStock + 1 - MaxOrders
           /\ \A i \in 1..Len(l.pedidos) : l.pedidos[i].cantidad = 1
           /\ l.pedidos[1].destino # l.pedidos[2].destino

\* C14: a cancellation for a date that is not in the tree, for a lot whose
\* queue is empty, or for a destination and quantity that no order of the
\* lot has both, reports that nothing was found and changes no stock, no
\* queue and no link of the tree.  Stated by its two halves: a cancellation
\* that does not end well changes nothing, and one that ends well was for a
\* date of the tree whose queue held an order with that destination and
\* that quantity.
C14_CancelNotFoundNoOp ==
    [][op'.name = "cancel" =>
         /\ op'.result \in {"ok", "no_lot", "empty_queue", "not_found"}
         /\ op'.result # "ok" => (root' = root /\ heap' = heap)
         /\ op'.result = "ok" =>
              \A d \in Dests, q \in QueueQtys :
                 CancelOrder(op'.fecha, d, q)
                   => /\ op'.fecha \in KeySet(root)
                      /\ \E i \in 1..Len(Lot(root, heap, op'.fecha).pedidos) :
                            Lot(root, heap, op'.fecha).pedidos[i]
                              = [destino |-> d, cantidad |-> q]]_vars

\* A cancellation found no order in a queue that holds both destinations
\* with different quantities: an order of the queue has the destination asked
\* for, and none has the quantity with it.
C14_Witness ==
    /\ op.name = "cancel" /\ op.result = "not_found"
    /\ Size(root) = 1
    /\ LET l == LotView(root, heap)
       IN  /\ Len(l.pedidos) = 2
           /\ l.pedidos[1].destino # l.pedidos[2].destino
           /\ l.pedidos[1].cantidad # l.pedidos[2].cantidad

\* C15: no order is reachable from the queues of two lots: the sets of cells
\* reachable from the queue heads of different nodes are disjoint, also after
\* a removal moved a queue from a child or cloned it from the successor.
C15_QueuesDisjoint ==
    \A n1 \in Nodes(root), n2 \in Nodes(root) :
        n1.fecha_vencimiento # n2.fecha_vencimiento
          => \A i \in 1..Len(Cells(n1.cabeza_pedidos, heap, HeapSize + 1)),
                j \in 1..Len(Cells(n2.cabeza_pedidos, heap, HeapSize + 1)) :
                Cells(n1.cabeza_pedidos, heap, HeapSize + 1)[i]
                  # Cells(n2.cabeza_pedidos, heap, HeapSize + 1)[j]

\* A node with two children was removed, the node now holds the clone of its
\* successor's queue, and another lot has a queue as well.
C15_Witness ==
    /\ op.name = "remove" /\ op.kind = "two_children" /\ op.result = "ok"
    /\ ~root.null
    /\ root.fecha_vencimiento > op.fecha
    /\ root.cabeza_pedidos # NullOrder
    /\ \E n \in Nodes(root) :
          /\ n.fecha_vencimiento # root.fecha_vencimiento
          /\ n.cabeza_pedidos # NullOrder

\* C17: removal is idempotent: deleteNode for a date that is not in the tree
\* returns the tree it was given, with the same shape, heights, stocks and
\* queues, and a second removal of a date just removed finds nothing and
\* changes nothing.
C17_RemoveIdempotent ==
    [][\A k \in TreeKeys :
          /\ k \notin KeySet(root)
               => deleteNode(root, k, heap) =
                    [ret |-> root, heap |-> heap, dbl |-> FALSE]
          /\ (op.name = "remove" /\ op.result = "ok" /\ op.fecha = k
                /\ RemoveLot(k, TRUE))
               => (root' = root /\ heap' = heap /\ op'.result = "not_found")]_vars

\* A date between the smallest and the largest has just been removed from a
\* tree that keeps four lots on three levels.
C17_Witness ==
    /\ op.name = "remove" /\ op.result = "ok"
    /\ Size(root) = 4 /\ root.height = 3
    /\ op.fecha \notin KeySet(root)
    /\ \E i \in KeySet(root), j \in KeySet(root) : i < op.fecha /\ op.fecha < j

\* C18: an order that was placed and is cancelled at once, with the date of
\* the lot that took it and its destination and quantity, leaves that lot
\* as it was before the order: same stock and same sequence of orders.
C18_DispatchCancelRestores ==
    [][(op.name = "dispatch" /\ op.result = "ok" /\ op'.name = "cancel") =>
         LET k == MinKey(root)
             cur == Lot(root, heap, k)
             e == cur.pedidos[Len(cur.pedidos)]
             Q == SubSeq(cur.pedidos, 1, Len(cur.pedidos) - 1)
         IN  CancelOrder(k, e.destino, e.cantidad)
               => Lot(root', heap', k) =
                    [cur EXCEPT !.stock = @ + e.cantidad, !.pedidos = Q]]_vars

\* C18 as amended: the lot gets back its stock and holds the same orders as
\* before the order was placed, each as many times; they are in the same
\* sequence unless the queue already held an equal order that a different
\* order followed (the older one is then the one cancelled).
C18_DispatchCancelRestoresOrders ==
    [][(op.name = "dispatch" /\ op.result = "ok" /\ op'.name = "cancel") =>
         LET k == MinKey(root)
             cur == Lot(root, heap, k)
             e == cur.pedidos[Len(cur.pedidos)]
             Q == SubSeq(cur.pedidos, 1, Len(cur.pedidos) - 1)
             after == Lot(root', heap', k)
         IN  CancelOrder(k, e.destino, e.cantidad)
               => /\ op'.result = "ok"
                  /\ after.producto = cur.producto
                  /\ after.stock = cur.stock + e.cantidad
                  /\ Len(after.pedidos) = Len(Q)
                  /\ \A i \in 1..Len(Q) : Count(after.pedidos, Q[i]) = Count(Q, Q[i])
                  /\ (\A i \in 1..Len(Q), j \in 1..Len(Q) :
                         (Q[i] = e /\ i < j) => Q[j] = e)
                       => after.pedidos = Q]_vars

\* An order has just been placed on a queue that already held an equal order
\* last and a different one before it.
C18_Witness ==
    /\ op.name = "dispatch" /\ op.result = "ok"
    /\ LET l == Lot(root, heap, MinKey(root))
       IN  /\ Len(l.pedidos) = 3
           /\ l.pedidos[2] = l.pedidos[3]
           /\ l.pedidos[1] # l.pedidos[2]

\* C19: after every reception, removal and load, the height stored in every
\* node is one more than the larger of the heights stored in its children,
\* an absent child counting as 0: a leaf stores 1.
C19_StoredHeights ==
    \A n \in Nodes(root) :
        n.height = 1 + max(IF n.left.null THEN 0 ELSE n.left.height,
                           IF n.right.null THEN 0 ELSE n.right.height)

\* A tree of three lots on two levels has just been loaded.
C19_Witness ==
    /\ op.name = "load" /\ op.result = "ok"
    /\ Size(root) = 3
    /\ root.height = 2
    /\ ~root.left.null /\ root.left.height = 1
    /\ ~root.right.null /\ root.right.height = 1

\* C20: the queue of every lot is well formed: its tail pointer is null
\* exactly when its head pointer is, and otherwise the tail is the last
\* order reachable from the head and its next link is null, every order
\* reachable from the head being allocated; this holds whichever order of
\* the queue a cancellation unlinked.
C20_QueueWellFormed ==
    \A n \in Nodes(root) :
        LET c == Cells(n.cabeza_pedidos, heap, HeapSize + 1)
        IN  /\ (n.tail = NullOrder) <=> (n.cabeza_pedidos = NullOrder)
            /\ n.cabeza_pedidos # NullOrder
                 => /\ Len(c) <= HeapSize
                    /\ n.tail = c[Len(c)]
                    /\ heap[n.tail].siguiente = NullOrder
                    /\ \A i \in 1..Len(c) : heap[c[i]].live

\* A cancellation has unlinked the order in the middle of a queue of three.
C20_Witness ==
    /\ op.name = "cancel" /\ op.result = "ok" /\ op.kind = "middle"
    /\ Len(CellsOf(root, heap, op.fecha)) = 2
    /\ NodeOf(root, op.fecha).tail = CellsOf(root, heap, op.fecha)[2]

\* C21: the queue of every lot is in arrival order: an order that is placed
\* gets a cell that was not in the queue and goes last, a cancellation takes
\* one cell out, and in both cases, as in every other step that keeps the
\* lot, the cells that stay keep their contents and their relative order.
C21_QueueFIFO ==
    [][\A k \in KeySet(root) \cap KeySet(root') :
          LET b == CellsOf(root, heap, k)
              a == CellsOf(root', heap', k)
              pb == Lot(root, heap, k).pedidos
              pa == Lot(root', heap', k).pedidos
          IN  IF op'.name = "dispatch" /\ op'.result = "ok" /\ k = MinKey(root)
              THEN /\ Len(a) = Len(b) + 1
                   /\ SubSeq(a, 1, Len(b)) = b
                   /\ \A i \in 1..Len(b) : b[i] # a[Len(a)]
                   /\ SubSeq(pa, 1, Len(pb)) = pb
              ELSE IF op'.name = "cancel" /\ op'.result = "ok" /\ k = op'.fecha
              THEN \E i \in 1..Len(b) : a = RemoveAt(b, i) /\ pa = RemoveAt(pb, i)
              ELSE pa = pb /\ (op'.name # "remove" => a = b)]_vars

\* An order has just been placed last in a queue whose head was cancelled
\* before: the new order has the cell of the cancelled one.
C21_Witness ==
    /\ op.name = "dispatch" /\ op.result = "ok"
    /\ CellsOf(root, heap, MinKey(root)) = <<2, 3, 1>>

\* C22: a load gives every lot the orders its record declares, as many and
\* in the order of the file, and a stock equal to the stock field of the
\* record less the sum of the quantities of those orders.
C22_LoadQueuesAndStock ==
    (op.name = "load" /\ op.result = "ok") =>
        LET recs == FileRecords(file)
            lots == PreOrderLots(root, heap)
        IN  /\ Len(lots) = Len(recs)
            /\ \A i \in 1..Len(recs) :
                  /\ lots[i].fecha = recs[i].fecha
                  /\ lots[i].lote.producto = recs[i].producto
                  /\ lots[i].lote.pedidos = recs[i].pedidos
                  /\ lots[i].lote.stock = recs[i].stock - SumQty(recs[i].pedidos)

\* A lot has been loaded with two different orders.
C22_Witness ==
    /\ op.name = "load" /\ op.result = "ok"
    /\ \E n \in Nodes(root) :
          LET l == LotView(n, heap)
          IN  /\ Len(l.pedidos) = 2
              /\ l.pedidos[1] # l.pedidos[2]
              /\ l.stock = 0 - SumQty(l.pedidos)

\* C23: without allocation failure no order is leaked or left dangling:
\* after every operation each allocated order is reached from exactly one
\* queue, once, and no queue reaches a cell that is not allocated; a removal
\* releases every order of the removed lot, each once, and nothing else; an
\* order is released by a cancellation or a removal only.
C23_HeapDiscipline ==
    [][/\ \A a \in Addrs :
             Owners(root', heap', a) = IF heap'[a].live THEN 1 ELSE 0
       /\ (op'.name = "remove" /\ op'.fecha # 0) =>
             /\ op'.result = "ok"
             /\ LiveCount(heap') =
                  LiveCount(heap) - Len(CellsOf(root, heap, op'.fecha))
       /\ LiveCount(heap') < LiveCount(heap) => op'.name \in {"cancel", "remove"}]_vars

\* C24: receiving a lot whose date is not in the tree adds that date to the
\* key set; the new lot has the given product and stock and an empty queue,
\* and every lot that was there keeps its product, stock and orders.
C24_InsertNewLot ==
    [][(op'.name = "insert" /\ op'.result = "ok") =>
         \A k \in Keys \ KeySet(root), p \in Products, s \in Stocks :
            InsertLot(k, p, s, TRUE) =>
               /\ KeySet(root') = KeySet(root) \cup {k}
               /\ Lot(root', heap', k) =
                     [producto |-> p, stock |-> s, pedidos |-> <<>>]
               /\ \A j \in KeySet(root) :
                     Lot(root', heap', j) = Lot(root, heap, j)]_vars

\* A reception that rotated the tree around a lot that has orders.
C24_Witness ==
    /\ op.name = "insert" /\ op.result = "ok"
    /\ KeySet(root) = {1, 2, 3}
    /\ root.fecha_vencimiento = 2
    /\ Len(Lot(root, heap, 3).pedidos) = 2

\* The heights stored in the three subtrees a rotation moves are correct.
MovedHeightsCorrect(a, b, c) ==
    /\ height(a) = TrueHeight(a)
    /\ height(b) = TrueHeight(b)
    /\ height(c) = TrueHeight(c)

\* r is the subtree t after a rotation that promoted the child x: the same
\* lots in the same in-order sequence, x on top, and in both rotated nodes
\* (r and its child d) a height of one more than the taller child's.
RotatedFrom(r, d, t, x) ==
    /\ ~r.null /\ ~d.null
    /\ r.fecha_vencimiento = x.fecha_vencimiento
    /\ InOrder(r) = InOrder(t)
    /\ Lots(r, heap) = Lots(t, heap)
    /\ Size(r) = Size(t)
    /\ d.height = 1 + max(height(d.left), height(d.right))
    /\ r.height = 1 + max(height(r.left), height(r.right))
    /\ d.height = TrueHeight(d)
    /\ r.height = TrueHeight(r)

\* C25: a right rotation on a node y with a left child x returns x as the
\* root of the subtree, keeps the in-order sequence of keys and the lots of
\* the subtree, and leaves in y and x a height of 1 + the maximum of their
\* children's heights, when the heights of the three moved subtrees were
\* correct; the left rotation does the same with the right child.
C25_Rotations ==
    \A y \in Nodes(root) :
       /\ (~y.left.null
            /\ MovedHeightsCorrect(y.left.left, y.left.right, y.right)) =>
              LET r == rightRotate(y)
              IN  /\ RotatedFrom(r, r.right, y, y.left)
                  /\ r.left = y.left.left
                  /\ r.right.left = y.left.right
                  /\ r.right.right = y.right
       /\ (~y.right.null
            /\ MovedHeightsCorrect(y.left, y.right.left, y.right.right)) =>
              LET r == leftRotate(y)
              IN  /\ RotatedFrom(r, r.left, y, y.right)
                  /\ r.right = y.right.right
                  /\ r.left.right = y.right.left
                  /\ r.left.left = y.left

\* A tree with a node whose three moved subtrees are all non-empty for the
\* right rotation, and a node whose middle subtree is non-empty for the left
\* one.
C25_Witness ==
    /\ \E y \in Nodes(root) :
          /\ ~y.left.null /\ ~y.left.left.null /\ ~y.left.right.null
          /\ ~y.right.null
          /\ rightRotate(y).right.left = y.left.right
    /\ \E y \in Nodes(root) :
          /\ ~y.right.null /\ ~y.right.left.null /\ ~y.left.null
          /\ leftRotate(y).left.right = y.right.left

\* C26: in every reachable tree, and in every subtree of it, the search for
\* a date returns the node that holds the date when the date is in the
\* subtree, and the null pointer when it is not.
C26_SearchFinds ==
    \A t \in Nodes(root) \cup {root} :
       \A k \in TreeKeys :
          LET found == searchNode(t, k)
          IN  IF k \in KeySet(t)
              THEN /\ ~found.null
                   /\ found.fecha_vencimiento = k
                   /\ found \in Nodes(t)
                   /\ found = NodeOf(t, k)
              ELSE found = NullNode

\* A tree of height 3 in which a search goes left then right, another right
\* then left, and a third finds nothing.
C26_Witness ==
    /\ ~root.null
    /\ ~root.left.null /\ ~root.left.right.null
    /\ ~root.right.null /\ ~root.right.left.null
    /\ searchNode(root, root.left.right.fecha_vencimiento) = root.left.right
    /\ searchNode(root, root.right.left.fecha_vencimiento) = root.right.left
    /\ \E k \in TreeKeys : k \notin KeySet(root) /\ searchNode(root, k).null

\* C27: the minimum of the empty tree is the null pointer; in every reachable
\* tree the minimum of every subtree is the node of that subtree with the
\* smallest date; and the minimum of the right subtree of a node with two
\* children is the node with the next date of the tree after that node's,
\* and it has no left child.
C27_Minimum ==
    /\ minValueNode(NullNode) = NullNode
    /\ \A t \in Nodes(root) :
          LET m == minValueNode(t)
          IN  /\ m \in Nodes(t)
              /\ \A k \in KeySet(t) : m.fecha_vencimiento <= k
              /\ m.left.null
    /\ \A t \in Nodes(root) :
          (~t.left.null /\ ~t.right.null) =>
             LET s == minValueNode(t.right)
             IN  /\ ~s.null
                 /\ s.left.null
                 /\ s.fecha_vencimiento > t.fecha_vencimiento
                 /\ \A k \in KeySet(root) :
                       ~(t.fecha_vencimiento < k /\ k < s.fecha_vencimiento)

\* A node with two children whose successor is below its right child, in a
\* tree whose minimum is two levels below the root.
C27_Witness ==
    /\ ~root.null /\ ~root.left.null /\ ~root.right.null
    /\ ~root.right.left.null
    /\ minValueNode(root.right) = root.right.left
    /\ ~root.left.left.null
    /\ minValueNode(root) = root.left.left

\* C28: without save, load or allocation failure, the stock of every lot
\* plus the quantities of the orders in its queue is the stock the lot was
\* received with, also for a lot whose data a deletion moved to another
\* node.
C28_StockConserved ==
    \A k \in KeySet(root) :
       LET l == Lot(root, heap, k)
       IN  l.stock + SumQty(l.pedidos) = GivenStock(k)

\* A two-child removal moved a lot with orders into the removed node, among
\* lots received with different stocks.
C28_Witness ==
    /\ op.name = "remove" /\ op.kind = "two_children" /\ op.result = "ok"
    /\ \E n \in Nodes(root) :
          /\ ~n.left.null
          /\ n.cabeza_pedidos # NullOrder
          /\ GivenStock(n.fecha_vencimiento) # GivenStock(n.left.fecha_vencimiento)
          /\ n.stock_total < GivenStock(n.fecha_vencimiento)

\* C29: from the empty passenger tree, every insertar and eliminar leaves a
\* binary search tree without duplicate documents whose count is the number
\* of its documents; insertar of a new document adds it with the given
\* destination and ticket type and keeps every other passenger's; insertar
\* of a document already there changes nothing; eliminar of a document takes
\* out that document only and keeps every other passenger's data, and
\* eliminar of an absent document changes nothing.
C29_PassengerSet ==
    [][/\ IsABB(raiz')
       /\ contar(raiz') = Cardinality(DocSet(raiz'))
       /\ op'.name = "insertar" =>
             \A d \in Docs, de \in Destinos, t \in Tipos :
                Insertar(d, de, t) =>
                   IF d \in DocSet(raiz)
                   THEN raiz' = raiz
                   ELSE /\ DocSet(raiz') = DocSet(raiz) \cup {d}
                        /\ Datos(raiz', d) = <<de, t>>
                        /\ \A j \in DocSet(raiz) : Datos(raiz', j) = Datos(raiz, j)
       /\ op'.name = "eliminar" =>
             \A d \in Docs :
                Eliminar(d) =>
                   IF d \notin DocSet(raiz)
                   THEN raiz' = raiz
                   ELSE /\ DocSet(raiz') = DocSet(raiz) \ {d}
                        /\ \A j \in DocSet(raiz') : Datos(raiz', j) = Datos(raiz, j)
       /\ op'.name = "contar" =>
             (raiz' = raiz /\ op'.fecha = Cardinality(DocSet(raiz)))]_vars

\* A passenger with two children was eliminated and its successor, found
\* below the right child, took its place with its own data.
C29_Witness ==
    /\ op.name = "eliminar" /\ op.kind = "two_children"
    /\ ~raiz.null /\ ~raiz.izq.null /\ ~raiz.der.null
    /\ op.fecha < raiz.documento
    /\ \A d \in DocSet(raiz.izq) : d < op.fecha
    /\ raiz.destino # raiz.izq.destino
    /\ contar(raiz) = MaxDoc - 1
====
